---- MODULE Spec2Model ----
(***************************************************************************)
(* FAT12 read-only driver of the stage-2 bootloader                        *)
(* (src/bootloader/stage-2/src/fs): boot sector geometry, the two          *)
(* single-sector caches, the 12-bit FAT codec, 8.3 names, directory        *)
(* lookups, path resolution and the streaming file cursor.                 *)
(*                                                                         *)
(* The disk is read-only, so a buffer is represented by the LBA of the     *)
(* disk sector whose content it holds (ZEROED when it was never loaded);   *)
(* the content itself is a function of the disk image.                     *)
(***************************************************************************)
EXTENDS Integers, Sequences, FiniteSets, TLC

VARIABLES
    boot_sector,      \* BootSector fields (FS.boot_sector)
    drive,            \* [max_sectors, max_heads] (FS.max_sectors, FS.max_heads)
    overflow_checks,  \* build profile: TRUE = arithmetic overflow panics, FALSE = wraps
    disk,             \* the disk image behind _c_disk_read
    fs,               \* FS: caches, halted flag, log of the reads of the last call
    file,             \* File: metadata, cursor, finished, buffer
    op,               \* the last operation: its name, arguments and result
    hist              \* observation of the calls made so far

vars == <<boot_sector, drive, overflow_checks, disk, fs, file, op, hist>>

(* ---------------------------------------------------------------- bounds *)
MaxChainLen == 3
MaxBufferSectors == 2
MaxClusterSize == 2

(* ------------------------------------------------------------- constants *)
SECTOR_BYTES == 512
FAT_BUFFER_LEN == 512
ENTRIES_PER_SECTOR == 16
ENTRY_NAME_LENGTH == 11
END_OF_CHAIN == 4088
U16 == 65536
ZEROED == 0 - 1
NEVER == 0 - 1

(* ------------------------------------------------------------ arithmetic *)
Min(a, b) == IF a < b THEN a ELSE b

\* usize::saturating_sub
saturating_sub(a, b) == IF a < b THEN 0 ELSE a - b

RECURSIVE BitAnd(_, _)
BitAnd(x, y) ==
    IF x = 0 \/ y = 0 THEN 0
    ELSE (x % 2) * (y % 2) + 2 * BitAnd(x \div 2, y \div 2)

RECURSIVE Pow2(_)
Pow2(n) == IF n = 0 THEN 1 ELSE 2 * Pow2(n - 1)

\* u8 << c and u8 >> c
Shl8(x, c) == (x * Pow2(c)) % 256
Shr(x, c) == x \div Pow2(c)

(* -------------------------------------------------------------- geometry *)
get_fat_offset == boot_sector.reserved_sectors
get_fat_size == boot_sector.sectors_per_fat
get_root_offset == get_fat_offset + get_fat_size * boot_sector.fat_count
get_root_size == boot_sector.root_entries \div 16
get_cluster_region_offset == get_root_offset + get_root_size
get_cluster_size == boot_sector.sectors_per_cluster

\* u16 arithmetic of get_cluster_offset: [value, overflow]
get_cluster_offset(cluster) ==
    LET exact == get_cluster_region_offset + get_cluster_size * (cluster - 2)
        delta == (cluster - 2) % U16
        product == (get_cluster_size * delta) % U16
        wrapped == (get_cluster_region_offset + product) % U16
    IN  [value |-> wrapped,
         overflow |-> cluster < 2 \/ exact >= U16]

lba_to_chs_ZeroBased(lba, spt, heads) ==
    [cylinder |-> (lba \div spt) \div heads,
     head |-> ((lba \div spt) % heads) % 256,
     sector |-> (lba % spt) % 256]

lba_to_chs(lba, spt, heads) ==
    [cylinder |-> (lba \div spt) \div heads,
     head |-> ((lba \div spt) % heads) % 256,
     sector |-> ((lba % spt) + 1) % 256]

(* ------------------------------------------------------------------ disk *)
\* FAT12 packing of the entries 2k (a) and 2k+1 (b) into the bytes 3k..3k+2.
PackByte(a, b, j) ==
    CASE j = 0 -> a % 256
      [] j = 1 -> (a \div 256) + (b % 16) * 16
      [] OTHER -> b \div 16

\* Byte idx of the FAT: the bytes the image sets, the filler elsewhere.
FatByte(idx) ==
    IF idx \in DOMAIN disk.fat_bytes THEN disk.fat_bytes[idx] ELSE disk.fat_fill

\* Byte j of disk sector lba. Only the FAT copies are kept byte by byte.
SectorByte(lba, j) ==
    IF lba = ZEROED THEN 0
    ELSE IF lba >= get_fat_offset /\ lba < get_root_offset
    THEN FatByte(((lba - get_fat_offset) % get_fat_size) * SECTOR_BYTES + j)
    ELSE 0

\* The FAT bytes that hold a table of entries (cluster -> value); the entries
\* the table leaves out are free (0).
TableEntry(table, c) == IF c \in DOMAIN table THEN table[c] ELSE 0

FatBytesOf(table) ==
    LET idxs == UNION {{3 * (c \div 2), 3 * (c \div 2) + 1, 3 * (c \div 2) + 2} :
                       c \in DOMAIN table}
    IN  [i \in idxs |->
            PackByte(TableEntry(table, 2 * (i \div 3)),
                     TableEntry(table, 2 * (i \div 3) + 1), i % 3)]

\* The log entry of a call of _c_disk_read and of its outcome.
DiskCall(lba, count, reason, outcome) ==
    [lba |-> lba, count |-> count, reason |-> reason,
     chs |-> lba_to_chs(lba, drive.max_sectors, drive.max_heads),
     outcome |-> outcome]

\* FS::read_disk on a disk whose reads fail: the failure is not noticed.
read_disk_Unchecked(f, lba, count, reason) ==
    IF f.halted # "no" THEN f
    ELSE [f EXCEPT !.reads = Append(@, DiskCall(lba, count, reason, f.io_budget # 0)),
                   !.io_budget = IF @ > 0 THEN @ - 1 ELSE @]

\* FS::read_disk: translate to CHS and call _c_disk_read; the call is logged.
\* f.io_budget is the number of calls that succeed before one fails (NEVER:
\* none fails). A failed call panics; nothing runs after a panic.
read_disk(f, lba, count, reason) ==
    IF f.halted # "no" THEN f
    ELSE [f EXCEPT !.reads = Append(@, DiskCall(lba, count, reason, f.io_budget # 0)),
                   !.halted = IF f.io_budget = 0 THEN "Could not read from disk!" ELSE @,
                   !.io_budget = IF @ > 0 THEN @ - 1 ELSE @]

(* ---------------------------------------------------------- sector caches *)
\* "If entry is out of range": the test both caches make on the 1-based index.
out_of_range_OffByOne(entry_index, min_entry, max_entry) ==
    entry_index < min_entry \/ max_entry < entry_index

out_of_range(entry_index, min_entry, max_entry) ==
    entry_index + 1 < min_entry \/ max_entry < entry_index + 1

(* ------------------------------------------------------------------- FAT *)
\* The buffer after read_disk returned g: the sector is in it unless the
\* read panicked.
fat_buffer_loaded_Stale(g, lba) == g

fat_buffer_loaded(g, lba) ==
    IF g.halted # "no" THEN g ELSE [g EXCEPT !.fat_buffer = lba]

\* "Return requested entry from the buffer"
fat_buffer_value(f1, entry_index) ==
    [fs |-> f1, val |-> SectorByte(f1.fat_buffer, entry_index % 512)]

\* FS::fat_buffer_read: [fs, val]
fat_buffer_read(f, entry_index) ==
    LET max_entry == f.fat_sector * 512
        min_entry == saturating_sub(max_entry, 512 - 1)
        sector == entry_index \div 512 + 1
    IN  fat_buffer_value(
            IF f.halted # "no" \/ ~out_of_range(entry_index, min_entry, max_entry)
            THEN f
            ELSE fat_buffer_loaded(
                     read_disk([f EXCEPT !.fat_sector = sector],
                               get_fat_offset + sector - 1, 1, "FAT"),
                     get_fat_offset + sector - 1),
            entry_index)

\* 4 for an odd cluster number, 0 for an even one: the half-byte shift.
shift_amount_None(cluster) == 0

shift_amount(cluster) == ((cluster * 3) % 2) * 4

\* The entry made of the two bytes read (r1 and r2 are what the two calls of
\* fat_buffer_read return), shifted by c and masked to 12 bits.
fat_entry_value(r1, r2, c) ==
    [fs |-> r2.fs,
     val |-> BitAnd(Shr(BitAnd(r2.val, Shr(255, 4 - c)) * 256
                        + BitAnd(r1.val, Shl8(255, c)), c), 4095)]

\* The second byte is read after the first (r1). The variant takes it from
\* the sector that holds the first byte.
fat_entry_bytes_SameSector(r1, i, c) ==
    fat_entry_value(r1, fat_buffer_value(r1.fs, i + 1), c)

fat_entry_bytes(r1, i, c) == fat_entry_value(r1, fat_buffer_read(r1.fs, i + 1), c)

\* "Check if the requested cluster can exist": the byte index i against the
\* length of the FAT buffer. The variant checks it against the size of the FAT.
cluster_out_of_bounds_WholeFat(i) == i >= get_fat_size * SECTOR_BYTES

cluster_out_of_bounds(i) == i >= FAT_BUFFER_LEN

\* FS::fat_entry_read: [fs, val]; fs.halted is set by the bounds panic
fat_entry_read(f, cluster) ==
    IF f.halted # "no" THEN [fs |-> f, val |-> 0]
    ELSE IF cluster_out_of_bounds((cluster * 3) \div 2)
    THEN [fs |-> [f EXCEPT !.halted = "FAT cluster out-of-bounds!"], val |-> 0]
    ELSE fat_entry_bytes(fat_buffer_read(f, (cluster * 3) \div 2),
                         (cluster * 3) \div 2, shift_amount(cluster))

(* ------------------------------------------------------------------ File *)
\* File::new
File_new(metadata, buffer_size) ==
    [metadata |-> metadata,
     current_cluster |-> metadata.lower_first_cluster,
     current_cluster_read_sectors |-> 0,
     finished |-> FALSE,
     buffer |-> [k \in 1..buffer_size |-> ZEROED]]

\* File::reset
File_reset(fl) ==
    [fl EXCEPT !.current_cluster = fl.metadata.lower_first_cluster,
               !.current_cluster_read_sectors = 0]

\* File::is_fully_read
is_fully_read(fl) == fl.current_cluster >= END_OF_CHAIN

\* The sector file_read resumes at: the cluster's offset plus the sectors of
\* the cluster that were already read.
next_lba_NoSkip(cluster_offset_start, read_sectors) == cluster_offset_start

next_lba(cluster_offset_start, read_sectors) == cluster_offset_start + read_sectors

\* The sectors one iteration of file_read transfers. The variant transfers
\* them one at a time.
transfer_count_One(cluster_size, read_sectors, buffer_capacity) == 1

transfer_count(cluster_size, read_sectors, buffer_capacity) ==
    Min(cluster_size - read_sectors, buffer_capacity)

\* The sectors read of the current cluster after a transfer: none once the
\* cluster is fully read (done) and the next one is taken from the FAT.
read_sectors_after_NoReset(done, read1) == read1

read_sectors_after(done, read1) == IF done THEN 0 ELSE read1

\* Where the next transfer of a call is written, in sectors from the start of
\* the buffer: addr = addr.add(count * SECTION_SIZE).
next_addr_Stay(pos, count) == pos

next_addr(pos, count) == pos + count

\* The loop of FS::file_read. l holds the locals: current_cluster,
\* current_cluster_read_sectors, buffer_capacity, pos (sectors already written,
\* i.e. addr), and the File fields written so far.
RECURSIVE file_read_loop(_, _)

\* The end of an iteration, once the next cluster is known (next is what
\* fat_entry_read returns, or the current cluster if it is not exhausted):
\* end of chain, buffer full, or one more iteration.
file_read_next(next, l, file1, count, read2) ==
    IF next.fs.halted # "no"
    THEN [fs |-> next.fs, file |-> file1]
    ELSE IF next.val >= END_OF_CHAIN
    THEN [fs |-> next.fs,
          file |-> [file1 EXCEPT
                      !.current_cluster = l.file.metadata.lower_first_cluster,
                      !.current_cluster_read_sectors = 0,
                      !.finished = TRUE]]
    ELSE IF l.buffer_capacity - count = 0
    THEN [fs |-> next.fs,
          file |-> [file1 EXCEPT
                      !.current_cluster = next.val,
                      !.current_cluster_read_sectors = read2]]
    ELSE file_read_loop(next.fs,
                        [l EXCEPT !.current_cluster = next.val,
                                  !.current_cluster_read_sectors = read2,
                                  !.buffer_capacity = l.buffer_capacity - count,
                                  !.pos = next_addr(l.pos, count),
                                  !.file = file1])

\* The iteration after read_disk returned f1: count sectors from lba on are
\* in the buffer; the FAT is read if the cluster is exhausted.
file_read_transferred(f1, l, lba, count) ==
    LET buffer1 == [k \in DOMAIN l.file.buffer |->
                       IF k > l.pos /\ k <= l.pos + count
                       THEN lba + (k - l.pos - 1)
                       ELSE l.file.buffer[k]]
        read1 == l.current_cluster_read_sectors + count
        done == get_cluster_size - read1 = 0
    IN  IF f1.halted # "no"
        THEN [fs |-> f1, file |-> l.file]
        ELSE file_read_next(IF done THEN fat_entry_read(f1, l.current_cluster)
                            ELSE [fs |-> f1, val |-> l.current_cluster],
                            l, [l.file EXCEPT !.buffer = buffer1], count,
                            read_sectors_after(done, read1))

file_read_loop(f, l) ==
    LET off == get_cluster_offset(l.current_cluster)
        lba_exact == next_lba(off.value, l.current_cluster_read_sectors)
        count == transfer_count(get_cluster_size, l.current_cluster_read_sectors,
                                l.buffer_capacity)
    IN  IF overflow_checks /\ (off.overflow \/ lba_exact >= U16)
        THEN [fs |-> [f EXCEPT !.halted = "attempt to subtract with overflow"],
              file |-> l.file]
        ELSE file_read_transferred(read_disk(f, lba_exact % U16, count, "file"),
                                   l, lba_exact % U16, count)

\* "Reset finished property to false"
clear_finished_Kept(fl) == fl

clear_finished(fl) == [fl EXCEPT !.finished = FALSE]

\* FS::file_read: [fs, file]
file_read(f, fl) ==
    file_read_loop(f,
        [current_cluster |-> fl.current_cluster,
         current_cluster_read_sectors |-> fl.current_cluster_read_sectors,
         buffer_capacity |-> Len(fl.buffer),
         pos |-> 0,
         file |-> clear_finished(fl)])

(* ------------------------------------------------------- common initial state *)
\* The state FS::new leaves: the boot sector is loaded, both caches are empty.
FS_new ==
    [fat_sector |-> 0, fat_buffer |-> ZEROED,
     root_sector |-> 0, root_buffer |-> ZEROED,
     halted |-> "no", reads |-> <<>>, io_budget |-> NEVER]

\* A 1.44 MB floppy: 1 reserved sector, 2 FATs of 9 sectors, 224 root entries.
BootSectorOf(spc, entries) ==
    [sectors_per_cluster |-> spc, reserved_sectors |-> 1, fat_count |-> 2,
     root_entries |-> entries, sectors_per_fat |-> 9]

DriveGeometry == [max_sectors |-> 18, max_heads |-> 2, outcome |-> TRUE]

NoEntry == [name |-> <<>>, attributes |-> 0, lower_first_cluster |-> 0]
NoFile == File_new(NoEntry, 1)
NoDisk == [fat_bytes |-> <<>>, fat_fill |-> 0, sectors |-> <<>>]
NoOp == [name |-> "none"]

\* Sequences without repetition over a set, of length 1..n.
RECURSIVE Chains(_, _)
Chains(pool, n) ==
    IF n = 0 THEN {}
    ELSE {<<c>> : c \in pool}
         \cup {Append(ch, c) : ch \in Chains(pool, n - 1), c \in pool}

Distinct(ch) == \A i, j \in DOMAIN ch : i # j => ch[i] # ch[j]

\* The FAT table of a chain whose last cluster links to tail.
ChainTable(ch, tail) ==
    [c \in {ch[i] : i \in DOMAIN ch} |->
        LET i == CHOOSE k \in DOMAIN ch : ch[k] = c
        IN  IF i = Len(ch) THEN tail ELSE ch[i + 1]]

(* ------------------------------------------------- streaming a file: SpecRead *)
\* Clusters of the chains: low ones, the last whose entry lies in the first FAT
\* sector (341, bytes 511 and 512) and one whose entry lies beyond it (342).
ClusterPool == {2, 3, 341, 342}

\* The FAT value of the last cluster: end-of-chain markers, or (ill-formed) a
\* free or reserved value or a link back to the first cluster.
Tails(ch) == {4088, 4095, 0, 1, ch[1]}

WellFormed(h) == h.tail >= END_OF_CHAIN

InitRead ==
    /\ \E spc \in 1..MaxClusterSize : boot_sector = BootSectorOf(spc, 224)
    /\ drive = DriveGeometry
    /\ overflow_checks \in BOOLEAN
    /\ \E ch \in {c \in Chains(ClusterPool, MaxChainLen) : Distinct(c)} :
       \E tail \in Tails(ch) :
       \E size \in 1..MaxBufferSectors :
          /\ disk = [NoDisk EXCEPT !.fat_bytes = FatBytesOf(ChainTable(ch, tail))]
          /\ file = File_new([name |-> <<>>, attributes |-> 32,
                              lower_first_cluster |-> ch[1]], size)
          /\ hist = [chain |-> ch, tail |-> tail, delivered |-> <<>>, calls |-> 0,
                     restarted |-> FALSE]
    /\ fs = FS_new
    /\ op = NoOp

\* The sectors a log of reads transfers for a reason, in order.
RECURSIVE SectorsOf(_, _)
SectorsOf(reads, reason) ==
    IF reads = <<>> THEN <<>>
    ELSE LET r == Head(reads)
         IN  (IF r.reason = reason
              THEN [k \in 1..r.count |-> r.lba + k - 1]
              ELSE <<>>) \o SectorsOf(Tail(reads), reason)

\* The caller's loop: call file_read, consume the buffer, repeat. A call made
\* after the one that finished starts the file again (hist.restarted); the
\* calls and the sectors delivered are counted from there.
FileRead ==
    /\ fs.halted = "no"
    /\ Len(hist.delivered) <= MaxChainLen * MaxClusterSize
    /\ \E r \in {file_read([fs EXCEPT !.reads = <<>>], file)} :
           /\ fs' = r.fs
           /\ file' = r.file
           /\ hist' = [hist EXCEPT
                  !.delivered = (IF file.finished THEN <<>> ELSE @)
                                \o SectorsOf(r.fs.reads, "file"),
                  !.calls = IF file.finished THEN 1 ELSE @ + 1,
                  !.restarted = @ \/ file.finished]
    /\ op' = [name |-> "file_read", consumed |-> file.current_cluster_read_sectors]
    /\ UNCHANGED <<boot_sector, drive, overflow_checks, disk>>

NextRead == FileRead

SpecRead == InitRead /\ [][NextRead]_vars

Range(q) == {q[i] : i \in DOMAIN q}

\* C1: for every well-formed chain (every cluster number the FAT can hold,
\* every cluster size and buffer size), repeated file_read calls from the fresh
\* state eventually finish the file, with the cursor back on the first cluster
\* and no sector of it consumed. As a property of finite runs: the stream never
\* halts, a call that finishes leaves the cursor reset, and, every call
\* delivering at least one sector, the call number n * sectors_per_cluster has
\* finished the file at the latest.
C1_StreamingLiveness ==
    (WellFormed(hist) /\ op.name = "file_read") =>
        /\ fs.halted = "no"
        /\ file.finished =>
              /\ file.current_cluster = file.metadata.lower_first_cluster
              /\ file.current_cluster_read_sectors = 0
        /\ hist.calls >= Len(hist.chain) * get_cluster_size => file.finished

\* The sectors of the clusters of a chain.
ChainSectors(ch) ==
    {get_cluster_region_offset + get_cluster_size * (ch[i] - 2) + k :
        i \in DOMAIN ch, k \in 0..(get_cluster_size - 1)}

\* C2: when a call finishes a file with a well-formed chain of n clusters, the
\* calls made since the fresh state have delivered exactly n * sectors_per_cluster
\* sectors: every sector of every cluster of the chain, each once.
C2_StreamingVolume ==
    (WellFormed(hist) /\ op.name = "file_read" /\ file.finished) =>
        /\ Len(hist.delivered) = Len(hist.chain) * get_cluster_size
        /\ Range(hist.delivered) = ChainSectors(hist.chain)

\* A three-cluster file streamed through a buffer smaller than a cluster.
C2_Witness ==
    /\ WellFormed(hist) /\ op.name = "file_read" /\ file.finished
    /\ Len(hist.chain) = 3
    /\ Len(file.buffer) < get_cluster_size
    /\ hist.calls = 6

\* The sectors of the clusters of a chain, in the order of the chain.
RECURSIVE StreamOf(_)
StreamOf(ch) ==
    IF ch = <<>> THEN <<>>
    ELSE [k \in 1..get_cluster_size |->
             get_cluster_region_offset + get_cluster_size * (Head(ch) - 2) + k - 1]
         \o StreamOf(Tail(ch))

IsPrefix(p, q) == Len(p) <= Len(q) /\ \A i \in DOMAIN p : p[i] = q[i]

\* C17: for a well-formed chain c1..cn the sectors transferred by the calls
\* made since the fresh state are, in this order, the sectors of c1, then of
\* c2, ... (each cluster from its first sector to its last): what is delivered
\* so far is the beginning of that sequence, hence each call resumes right
\* after the previous one, and it is the whole sequence when a call finishes.
\* Every call leaves its sectors in the buffer from offset 0 on, in order.
C17_StreamingOrder ==
    (WellFormed(hist) /\ op.name = "file_read") =>
        /\ IsPrefix(hist.delivered, StreamOf(hist.chain))
        /\ file.finished => hist.delivered = StreamOf(hist.chain)
        /\ LET now == SectorsOf(fs.reads, "file")
           IN  /\ Len(now) <= Len(file.buffer)
               /\ \A k \in DOMAIN now : file.buffer[k] = now[k]

\* A chain that goes down, then up, streamed whole by calls that each cross
\* from one one-sector cluster into the next.
C17_Witness ==
    /\ WellFormed(hist) /\ op.name = "file_read" /\ file.finished
    /\ hist.chain = <<3, 2, 341>>
    /\ get_cluster_size = 1 /\ Len(file.buffer) = 2
    /\ hist.delivered = <<34, 33, 372>>
    /\ hist.calls = 2

\* C18: after every call of file_read that returns, the sectors consumed of
\* the current cluster are at least 0 and fewer than sectors_per_cluster; if
\* finished is set the cursor is on the entry's first cluster with no sector
\* consumed; if it is not, the call filled the whole buffer and (well-formed
\* chain) the current cluster is a cluster of the chain, below 0xFF8.
C18_CursorInvariant ==
    (op.name = "file_read" /\ fs.halted = "no") =>
        /\ get_cluster_size >= 1
        /\ file.current_cluster_read_sectors >= 0
        /\ file.current_cluster_read_sectors < get_cluster_size
        /\ file.finished =>
              /\ file.current_cluster = file.metadata.lower_first_cluster
              /\ file.current_cluster_read_sectors = 0
        /\ ~file.finished =>
              /\ Len(SectorsOf(fs.reads, "file")) = Len(file.buffer)
              /\ file.current_cluster < END_OF_CHAIN
              /\ WellFormed(hist) => file.current_cluster \in Range(hist.chain)

\* A call that stops in the middle of the second cluster of a chain.
C18_Witness ==
    /\ op.name = "file_read" /\ fs.halted = "no" /\ ~file.finished
    /\ WellFormed(hist) /\ Len(hist.chain) = 3
    /\ get_cluster_size = 2 /\ Len(file.buffer) = 1
    /\ file.current_cluster = hist.chain[2]
    /\ file.current_cluster # file.metadata.lower_first_cluster
    /\ file.current_cluster_read_sectors = 1

\* The counts of the reads a log holds for a reason, in order.
RECURSIVE CountsOf(_, _)
CountsOf(reads, reason) ==
    IF reads = <<>> THEN <<>>
    ELSE (IF Head(reads).reason = reason THEN <<Head(reads).count>> ELSE <<>>)
         \o CountsOf(Tail(reads), reason)

RECURSIVE SumOf(_)
SumOf(q) == IF q = <<>> THEN 0 ELSE Head(q) + SumOf(Tail(q))

\* Every count is at least 1 and is the smaller of what is left of the cluster
\* (consumed sectors are read already) and of the buffer (remaining sectors).
RECURSIVE CountsAsClaimed(_, _, _)
CountsAsClaimed(counts, consumed, remaining) ==
    counts = <<>> \/
        /\ Head(counts) >= 1
        /\ Head(counts) = Min(get_cluster_size - consumed, remaining)
        /\ CountsAsClaimed(Tail(counts), (consumed + Head(counts)) % get_cluster_size,
                           remaining - Head(counts))

\* C19: in every iteration of file_read the count requested from the disk is
\* min(sectors_per_cluster - sectors consumed of the cluster, remaining buffer
\* capacity) and is at least 1; the counts of one call sum to at most the
\* capacity of the buffer, and a call that returns delivered at least one
\* sector.
C19_BoundedTransfer ==
    op.name = "file_read" =>
        LET counts == CountsOf(fs.reads, "file")
        IN  /\ CountsAsClaimed(counts, op.consumed, Len(file.buffer))
            /\ SumOf(counts) <= Len(file.buffer)
            /\ fs.halted = "no" => SumOf(counts) >= 1

\* A call that fills its two-sector buffer from two one-sector clusters of a
\* chain of three.
C19_Witness ==
    /\ op.name = "file_read" /\ fs.halted = "no"
    /\ WellFormed(hist) /\ Len(hist.chain) = 3
    /\ get_cluster_size = 1 /\ Len(file.buffer) = 2
    /\ CountsOf(fs.reads, "file") = <<1, 1>>
    /\ ~file.finished /\ file.current_cluster = hist.chain[3]

\* The FS and the File after n calls of file_read on File::new of the entry
\* of fl, with a buffer like fl's, on a new FS.
RECURSIVE FreshAfter(_, _)
FreshAfter(fl, n) ==
    IF n = 0
    THEN [fs |-> FS_new, file |-> File_new(fl.metadata, Len(fl.buffer))]
    ELSE CHOOSE out \in {file_read(prev.fs, prev.file) :
                            prev \in {FreshAfter(fl, n - 1)}} : TRUE

\* C20: a call of file_read on a File that the previous call left finished
\* starts the file again: it delivers the first sectors of the file, and the
\* File (buffer, finished, cursor) after it and after each later call is the
\* File that the same number of calls leave from File::new of the same entry.
C20_RestartAfterCompletion ==
    (op.name = "file_read" /\ hist.restarted /\ fs.halted = "no") =>
        \A fresh \in {FreshAfter(file, hist.calls)} :
            /\ fresh.fs.halted = "no"
            /\ file = fresh.file
            /\ hist.calls = 1 =>
                  file.buffer[1] = get_cluster_offset(file.metadata.lower_first_cluster).value

\* The first call after a three-sector file was finished through a two-sector
\* buffer: finished is cleared and the buffer holds the first two sectors.
C20_Witness ==
    /\ op.name = "file_read" /\ hist.restarted /\ fs.halted = "no"
    /\ WellFormed(hist) /\ Len(hist.chain) = 3
    /\ get_cluster_size = 1 /\ Len(file.buffer) = 2
    /\ hist.calls = 1 /\ ~file.finished
    /\ hist.delivered = StreamOf(SubSeq(hist.chain, 1, 2))

\* C27: file_read computes the disk offset of a cluster only for cluster
\* numbers >= 2: the subtraction cluster - 2 never underflows (no overflow
\* panic with overflow checks), and no file sector is read below the cluster
\* region (what the wrapped offset of cluster 0 or 1 addresses without them),
\* also when a FAT link of the chain is 0 or 1.
C27_NoReservedCluster ==
    op.name = "file_read" =>
        /\ fs.halted # "attempt to subtract with overflow"
        /\ \A n \in DOMAIN fs.reads :
              fs.reads[n].reason = "file" => fs.reads[n].lba >= get_cluster_region_offset

\* C30: after a file_read call that consumed the last cluster of the chain
\* (the call that found a FAT link >= 0xFF8 and set finished), is_fully_read
\* is true; after a call that left part of the chain unread, and before the
\* first call, it is false.
C30_FullyReadReported ==
    fs.halted = "no" => (is_fully_read(file) <=> file.finished)

(* --------------------------------------------- resetting a file: SpecReset *)
\* File::reset between the calls of file_read; it makes no disk call. The
\* caller counts its calls and sectors from there.
Reset ==
    /\ fs.halted = "no"
    /\ op.name # "reset"
    /\ file' = File_reset(file)
    /\ fs' = [fs EXCEPT !.reads = <<>>]
    /\ op' = [name |-> "reset", before |-> file]
    /\ hist' = [hist EXCEPT !.delivered = <<>>, !.calls = 0]
    /\ UNCHANGED <<boot_sector, drive, overflow_checks, disk>>

NextReset == FileRead \/ Reset

SpecReset == InitRead /\ [][NextReset]_vars

\* C21: reset() puts any File back in the fresh state: the cursor on the first
\* cluster of the entry, no sector consumed, finished = false; metadata and
\* buffer are as they were, no disk read is made, and a second reset changes
\* nothing.
C21_ResetToFresh ==
    op.name = "reset" =>
        /\ file.current_cluster = file.metadata.lower_first_cluster
        /\ file.current_cluster_read_sectors = 0
        /\ file.finished = FALSE
        /\ file.metadata = op.before.metadata
        /\ file.buffer = op.before.buffer
        /\ fs.reads = <<>>
        /\ File_reset(file) = file

(* ------------------------------------------------------------- 8.3 names *)
\* u8::to_ascii_uppercase
to_ascii_uppercase(b) == IF b >= 97 /\ b <= 122 THEN b - 32 ELSE b

\* A write parsed_entry_name[idx] = b of FS::parse_entry_name: out of bounds, it panics.
name_write(acc, idx, b) ==
    IF acc.panic \/ idx < 0 \/ idx >= ENTRY_NAME_LENGTH
    THEN [acc EXCEPT !.panic = TRUE]
    ELSE [acc EXCEPT !.value = [@ EXCEPT ![idx + 1] = b]]

\* for i in 0..extension_index
RECURSIVE parse_base(_, _, _, _)
parse_base(acc, entry_name, i, extension_index) ==
    IF i >= extension_index THEN acc
    ELSE parse_base(name_write(acc, i, to_ascii_uppercase(entry_name[i + 1])),
                    entry_name, i + 1, extension_index)

\* Where the byte i of the name goes when it belongs to the extension.
extension_position_Left(len, i) == i

extension_position(len, i) == ENTRY_NAME_LENGTH - (len - i)

\* for i in (extension_index+1..entry_name.len()).rev()
RECURSIVE parse_extension(_, _, _, _)
parse_extension(acc, entry_name, i, extension_index) ==
    IF i <= extension_index THEN acc
    ELSE parse_extension(
            name_write(acc, extension_position(Len(entry_name), i),
                       to_ascii_uppercase(entry_name[i + 1])),
            entry_name, i - 1, extension_index)

\* FS::parse_entry_name: [panic, value]
parse_entry_name(raw) ==
    LET entry_name == IF Len(raw) > ENTRY_NAME_LENGTH
                      THEN SubSeq(raw, 1, 11) ELSE raw
        dots == {i \in 0..(Len(entry_name) - 1) : entry_name[i + 1] = 46}
        extension_index == IF dots = {} THEN Len(entry_name)
                           ELSE CHOOSE i \in dots : \A j \in dots : j <= i
        blank == [panic |-> FALSE, value |-> [k \in 1..ENTRY_NAME_LENGTH |-> 32]]
        base == parse_base(blank, entry_name, 0, extension_index)
    IN  parse_extension(base, entry_name, Len(entry_name) - 1, extension_index)

(* ------------------------------------------------- normalizing names: SpecName *)
MaxNameLen == 12

\* Byte strings whose byte at position i is a dot or a letter that tells the
\* position (lower case at even positions, upper case at odd ones).
PositionByte(i) == IF i % 2 = 0 THEN 97 + i ELSE 65 + i

RECURSIVE NamesOfLen(_)
NamesOfLen(n) ==
    IF n = 0 THEN {<<>>}
    ELSE {Append(x, b) : x \in NamesOfLen(n - 1), b \in {46, PositionByte(n - 1)}}

DocNames ==
    {<<116, 101, 115, 116, 46, 98, 105, 110>>,        \* "test.bin"
     <<100, 105, 114>>,                               \* "dir"
     <<105, 97, 109, 108, 111, 110, 103, 101, 114, 116, 104, 97, 110, 49, 49>>}  \* "iamlongerthan11"

NameInputs == DocNames \cup UNION {NamesOfLen(n) : n \in 0..MaxNameLen}

InitName ==
    /\ boot_sector = BootSectorOf(1, 224)
    /\ drive = DriveGeometry
    /\ overflow_checks = FALSE
    /\ disk = NoDisk
    /\ fs = FS_new
    /\ file = NoFile
    /\ op = NoOp
    /\ hist \in [input : NameInputs]

ParseEntryName ==
    /\ op.name = "none"
    /\ op' = [name |-> "parse_entry_name", result |-> parse_entry_name(hist.input)]
    /\ UNCHANGED <<boot_sector, drive, overflow_checks, disk, fs, file, hist>>

NextName == ParseEntryName

SpecName == InitName /\ [][NextName]_vars

\* The reference 8.3 encoding of a byte string.
Truncated(x) == IF Len(x) > 11 THEN SubSeq(x, 1, 11) ELSE x

LastDot(y) ==
    IF \E i \in 1..Len(y) : y[i] = 46
    THEN CHOOSE i \in 1..Len(y) : y[i] = 46 /\ \A j \in (i + 1)..Len(y) : y[j] # 46
    ELSE Len(y) + 1

Reference83(x) ==
    LET y == Truncated(x)
        d == LastDot(y)
        base == SubSeq(y, 1, d - 1)
        ext == SubSeq(y, d + 1, Len(y))
    IN  [p \in 1..11 |->
            IF p <= Len(base) THEN to_ascii_uppercase(base[p])
            ELSE IF p > 11 - Len(ext) THEN to_ascii_uppercase(ext[p - (11 - Len(ext))])
            ELSE 32]

\* C10: parse_entry_name(x) never indexes out of bounds and equals the reference
\* encoding of the first 11 bytes of x: base name uppercased and left-justified,
\* extension (after the last dot) uppercased and right-justified, spaces
\* elsewhere; "test.bin", "dir" and "iamlongerthan11" give the documented names.
C10_Normalization ==
    op.name = "parse_entry_name" =>
        /\ ~op.result.panic
        /\ op.result.value = Reference83(hist.input)
        /\ hist.input = <<116, 101, 115, 116, 46, 98, 105, 110>> =>
              op.result.value = <<84, 69, 83, 84, 32, 32, 32, 32, 66, 73, 78>>
        /\ hist.input = <<100, 105, 114>> =>
              op.result.value = <<68, 73, 82, 32, 32, 32, 32, 32, 32, 32, 32>>
        /\ Len(hist.input) = 15 =>
              op.result.value = <<73, 65, 77, 76, 79, 78, 71, 69, 82, 84, 72>>

\* A name with several dots, a leading one included, longer than 11 bytes.
C10_Witness ==
    /\ op.name = "parse_entry_name"
    /\ Len(hist.input) = 12
    /\ hist.input[1] = 46 /\ hist.input[5] = 46 /\ hist.input[9] = 46
    /\ hist.input[12] = 46
    /\ op.result.value[11] = to_ascii_uppercase(hist.input[11])

\* C11: for an input that contains a '.', the extension goes only to the last
\* three positions (8, 9, 10) of the result: each of the positions 0..7 holds
\* a space or the uppercased base-name byte of that position, however long
\* the text after the dot is.
C11_ExtensionField ==
    (op.name = "parse_entry_name" /\ \E i \in DOMAIN hist.input : hist.input[i] = 46) =>
        \A p \in 1..8 :
            \/ op.result.value[p] = 32
            \/ /\ p < LastDot(Truncated(hist.input))
               /\ op.result.value[p] = to_ascii_uppercase(Truncated(hist.input)[p])

(* ------------------------------------------------ decoding FAT entries: SpecFat *)
\* Pair indexes k (entries 2k and 2k+1 in the bytes 3k..3k+2): the first pairs,
\* one in the middle, the pair whose last byte is the first byte of the second
\* FAT sector (170: bytes 510, 511, 512) and the first pair beyond the bytes the
\* bounds check of fat_entry_read accepts (171).
\* The sector and the count of each call in a log of disk calls.
LbaAndCount(reads) ==
    [n \in DOMAIN reads |-> [lba |-> reads[n].lba, count |-> reads[n].count]]

PairIndexes == {0, 1, 85, 170, 171}

Values12 == {0, 1, 15, 240, 3840, 291, 1365, 2048, 2730, 2748, 4088, 4095}

FillBytes == {0, 165, 255}

InitFat ==
    /\ boot_sector = BootSectorOf(1, 224)
    /\ drive = DriveGeometry
    /\ overflow_checks = FALSE
    /\ \E k \in PairIndexes, a \in Values12, b \in Values12, fill \in FillBytes :
          /\ disk = [NoDisk EXCEPT
                        !.fat_bytes = [i \in {3 * k, 3 * k + 1, 3 * k + 2} |->
                                          PackByte(a, b, i - 3 * k)],
                        !.fat_fill = fill]
          /\ hist = [k |-> k, a |-> a, b |-> b]
    /\ fs = FS_new
    /\ file = NoFile
    /\ op = NoOp

FatEntryRead(cluster) ==
    /\ fs.halted = "no"
    /\ \E r \in {fat_entry_read([fs EXCEPT !.reads = <<>>], cluster)} :
           /\ fs' = r.fs
           /\ op' = [name |-> "fat_entry_read", cluster |-> cluster, val |-> r.val,
                     resident |-> fs.fat_sector]
    /\ UNCHANGED <<boot_sector, drive, overflow_checks, disk, file, hist>>

NextFat == \E cluster \in {2 * hist.k, 2 * hist.k + 1} : FatEntryRead(cluster)

SpecFat == InitFat /\ [][NextFat]_vars

C26_EntryAcrossSectors ==
    (op.name = "fat_entry_read" /\ op.cluster = 341) =>
        /\ fs.halted = "no"
        /\ op.val = SectorByte(get_fat_offset + 1, 0) * 16
                         + SectorByte(get_fat_offset, 511) \div 16
        /\ op.val = hist.b
        /\ LbaAndCount(fs.reads) =
              (IF op.resident = 1 THEN <<>>
               ELSE <<[lba |-> get_fat_offset, count |-> 1]>>)
              \o <<[lba |-> get_fat_offset + 1, count |-> 1]>>
        /\ fs.fat_sector = 2 /\ fs.fat_buffer = get_fat_offset + 1

\* Entry 341 read with the first FAT sector resident (after entry 340): one
\* read, of the second sector.
C26_Witness ==
    /\ op.name = "fat_entry_read" /\ op.cluster = 341 /\ op.resident = 1
    /\ hist.a = 4095 /\ hist.b = 2730 /\ op.val = 2730
    /\ disk.fat_fill = 0
    /\ Len(fs.reads) = 1 /\ fs.fat_sector = 2

ZeroEntry ==
    [name |-> [k \in 1..ENTRY_NAME_LENGTH |-> 0], attributes |-> 0,
     lower_first_cluster |-> 0]

\* 8.3 name "FILLER", space padded.
NameFiller ==
    [k \in 1..ENTRY_NAME_LENGTH |->
        IF k <= 6 THEN <<70, 73, 76, 76, 69, 82>>[k] ELSE 32]

\* An entry of no interest; its first cluster tells the slot it is in.
FillerEntry(slot) ==
    [name |-> NameFiller, attributes |-> 32, lower_first_cluster |-> 2 + slot]

\* Entry j (0..15) of disk sector lba read as 16 directory entries. The image
\* of a directory sector gives the entries of interest by position; the other
\* positions below len hold fillers (numbered from first), the rest is zero,
\* as are the sectors the disk image leaves out.
SectorEntry(lba, j) ==
    IF lba \in DOMAIN disk.sectors
    THEN LET image == disk.sectors[lba]
         IN  IF j \in DOMAIN image.entries THEN image.entries[j]
             ELSE IF j < image.len THEN FillerEntry(image.first + j)
             ELSE ZeroEntry
    ELSE ZeroEntry

\* The image of the sector that holds the slots first..first+15 of a directory
\* whose entries of interest are given by slot.
SectorImage(first, entries) ==
    [len |-> ENTRIES_PER_SECTOR, first |-> first,
     entries |-> [j \in {i - first : i \in {x \in DOMAIN entries :
                                             x >= first /\ x < first + ENTRIES_PER_SECTOR}}
                     |-> entries[j + first]]]

\* DirectoryEntry::is_directory: the directory bit (0x10) of the attributes.
is_directory(entry) == (entry.attributes \div 16) % 2 = 1

NotFound == [found |-> FALSE, entry |-> ZeroEntry]
Found(entry) == [found |-> TRUE, entry |-> entry]

\* "If name's first byte is NULL, there are no more entries"
no_more_entries_Never(entry) == FALSE

no_more_entries(entry) == entry.name[1] = 0

\* The root entries a scan reaches: those below root_entries.
root_scan_end_Fixed16 == ENTRIES_PER_SECTOR

root_scan_end == boot_sector.root_entries

\* The root buffer after read_disk returned g.
root_buffer_loaded_Shared(g, lba) ==
    IF g.halted # "no" THEN g ELSE [g EXCEPT !.root_buffer = lba, !.fat_buffer = lba]

root_buffer_loaded(g, lba) ==
    IF g.halted # "no" THEN g ELSE [g EXCEPT !.root_buffer = lba]

\* An iteration of the loop of FS::get_entry_from_root once the sector of the
\* entry is in the buffer (f1). s holds the state of the loop.
root_scan_entry(s, f1) ==
    LET entry == SectorEntry(f1.root_buffer, s.entry_index % ENTRIES_PER_SECTOR)
        seen1 == Append(s.inspected, s.entry_index)
    IN  IF f1.halted # "no"
        THEN [s EXCEPT !.fs = f1, !.done = TRUE]
        ELSE IF no_more_entries(entry)
        THEN [s EXCEPT !.fs = f1, !.inspected = seen1, !.done = TRUE]
        ELSE IF s.name = entry.name
        THEN [s EXCEPT !.fs = f1, !.inspected = seen1, !.done = TRUE,
                       !.result = Found(entry)]
        ELSE [s EXCEPT !.fs = f1, !.inspected = seen1, !.entry_index = @ + 1]

\* One iteration of the loop; nothing happens once the loop is left.
root_scan_step(s) ==
    LET max_entry == s.fs.root_sector * ENTRIES_PER_SECTOR
        min_entry == saturating_sub(max_entry, ENTRIES_PER_SECTOR - 1)
        sector == s.entry_index \div 16 + 1
    IN  IF s.done THEN s
        ELSE IF s.entry_index >= root_scan_end \/ s.fs.halted # "no"
        THEN [s EXCEPT !.done = TRUE]
        ELSE root_scan_entry(s,
                 IF ~out_of_range(s.entry_index, min_entry, max_entry) THEN s.fs
                 ELSE root_buffer_loaded(
                          read_disk([s.fs EXCEPT !.root_sector = sector],
                                    get_root_offset + sector - 1, 1, "Root Directory"),
                          get_root_offset + sector - 1))

\* n iterations of the loop: the first half, then from the state it leaves
\* (bound as the element of a singleton set) the second half.
RECURSIVE root_scan_run(_, _)
root_scan_run(s, n) ==
    IF n = 0 THEN s
    ELSE IF n = 1 THEN root_scan_step(s)
    ELSE CHOOSE out \in {root_scan_run(half, n - n \div 2) :
                            half \in {root_scan_run(s, n \div 2)}} : TRUE

\* What the loop returns.
root_scan_result(s) == [fs |-> s.fs, result |-> s.result, inspected |-> s.inspected]

\* The loop of FS::get_entry_from_root from entry_index on; seen lists the
\* indexes inspected so far. The loop is left within root_scan_end + 1
\* iterations. [fs, result, inspected]
root_scan(f, name, entry_index, seen) ==
    root_scan_result(
        root_scan_run([fs |-> f, name |-> name, entry_index |-> entry_index,
                       inspected |-> seen, result |-> NotFound, done |-> FALSE],
                      root_scan_end + 1))

\* FS::get_entry_from_root
get_entry_from_root(f, name) == root_scan(f, name, 0, <<>>)

(* -------------------------------------------- scanning the root: SpecRoot *)
MaxRootSectors == 2

\* 8.3 names "A" and "C", space padded.
NameA == [k \in 1..ENTRY_NAME_LENGTH |-> IF k = 1 THEN 65 ELSE 32]
NameC == [k \in 1..ENTRY_NAME_LENGTH |-> IF k = 1 THEN 67 ELSE 32]

\* Positions of a sector: its first two entries, two in the middle, its last.
SlotOffsets == {0, 1, 7, 8, 15}
NoPos == 0 - 1

\* The entries of interest of a directory: named A at the slots in as, the
\* terminator (all zero) at t. The first cluster of an entry tells its slot.
EntriesOfInterest(as, t) ==
    [i \in (as \cup {t}) \ {NoPos} |->
        IF i = t THEN ZeroEntry
        ELSE [name |-> NameA, attributes |-> 32, lower_first_cluster |-> 2 + i]]

\* The root images: one sector more than the largest root directory, so
\* that entries follow the root region on the disk.
RootPositions ==
    {ENTRIES_PER_SECTOR * s + o : s \in 0..MaxRootSectors, o \in SlotOffsets}

RootCounts ==
    {ENTRIES_PER_SECTOR, ENTRIES_PER_SECTOR * MaxRootSectors - 8,
     ENTRIES_PER_SECTOR * MaxRootSectors}

\* The root offset of BootSectorOf: 1 reserved sector and 2 FATs of 9 sectors.
RootOffsetOf(bs) == bs.reserved_sectors + bs.sectors_per_fat * bs.fat_count

RootImage(bs, sectors, entries) ==
    [lba \in {RootOffsetOf(bs) + s : s \in 0..(sectors - 1)} |->
        SectorImage(ENTRIES_PER_SECTOR * (lba - RootOffsetOf(bs)), entries)]

InitRoot ==
    /\ \E n \in RootCounts : boot_sector = BootSectorOf(1, n)
    /\ drive = DriveGeometry
    /\ overflow_checks = FALSE
    /\ \E t \in RootPositions \cup {NoPos}, a \in RootPositions \cup {NoPos},
          dup \in BOOLEAN :
          disk = [NoDisk EXCEPT
                    !.sectors = RootImage(BootSectorOf(1, 16), MaxRootSectors + 1,
                        EntriesOfInterest(IF dup /\ a # NoPos THEN {a, a + 1} ELSE {a}, t))]
    /\ fs = FS_new
    /\ file = NoFile
    /\ op = NoOp
    /\ hist = [before |-> FS_new]

GetEntryFromRoot(name) ==
    /\ fs.halted = "no"
    /\ \E r \in {get_entry_from_root([fs EXCEPT !.reads = <<>>], name)} :
           /\ fs' = r.fs
           /\ op' = [name |-> "get_entry_from_root", arg |-> name,
                     result |-> r.result, inspected |-> r.inspected]
    /\ hist' = [before |-> fs]
    /\ UNCHANGED <<boot_sector, drive, overflow_checks, disk, file>>

NextRoot == \E name \in {NameA, NameC, NameFiller} : GetEntryFromRoot(name)

SpecRoot == InitRoot /\ [][NextRoot]_vars

\* The root entry at index i, as the disk holds it.
RootAt(i) ==
    SectorEntry(get_root_offset + i \div ENTRIES_PER_SECTOR, i % ENTRIES_PER_SECTOR)

\* The indexes below root_entries whose entry is named name, with no
\* terminator at or before them.
RootMatches(name) ==
    {i \in 0..(boot_sector.root_entries - 1) :
        /\ RootAt(i).name = name
        /\ \A j \in 0..i : RootAt(j).name[1] # 0}

\* C4: get_entry_from_root(name) returns the entry at the smallest index below
\* root_entries whose name equals name and that no terminator precedes, and
\* not-found when there is none, whatever the directory cache held before.
C4_RootLookupResult ==
    op.name = "get_entry_from_root" =>
        IF RootMatches(op.arg) = {}
        THEN ~op.result.found
        ELSE /\ op.result.found
             /\ \E i \in RootMatches(op.arg) :
                   /\ \A j \in RootMatches(op.arg) : i <= j
                   /\ op.result.entry = RootAt(i)

\* The second of two entries named A is skipped for the first, found in the
\* second root sector by a call that started with that sector not resident.
C4_Witness ==
    /\ op.name = "get_entry_from_root" /\ op.arg = NameA
    /\ op.result.found /\ op.result.entry.lower_first_cluster = 2 + 17
    /\ RootAt(18).name = NameA
    /\ hist.before.root_sector = 2
    /\ Len(fs.reads) = 2

\* C5: when the root entry at index k is a terminator, get_entry_from_root
\* inspects no index above k, returns no entry above k and reads no root sector
\* beyond the one that holds k.
C5_RootScanTermination ==
    op.name = "get_entry_from_root" =>
        \A k \in 0..(ENTRIES_PER_SECTOR * (MaxRootSectors + 1) - 1) :
            RootAt(k).name[1] = 0 =>
                /\ \A n \in DOMAIN op.inspected : op.inspected[n] <= k
                /\ op.result.found => op.result.entry.lower_first_cluster - 2 < k
                /\ \A n \in DOMAIN fs.reads :
                      fs.reads[n].lba <= get_root_offset + k \div ENTRIES_PER_SECTOR

\* The terminator is the first entry of the second sector and an entry named A
\* follows it: the scan stops on the terminator.
C5_Witness ==
    /\ op.name = "get_entry_from_root" /\ op.arg = NameA
    /\ RootAt(16).name[1] = 0 /\ RootAt(17).name = NameA
    /\ boot_sector.root_entries = 32
    /\ ~op.result.found
    /\ Len(op.inspected) = 17

\* C28: every disk read of get_entry_from_root targets a sector of the root
\* region, from get_root_offset up to but not including get_root_offset +
\* get_root_size (the cluster-region offset), for every root_entries, those
\* that are not a multiple of 16 included, and every directory content.
C28_RootScanInRegion ==
    op.name = "get_entry_from_root" =>
        \A n \in DOMAIN fs.reads :
            /\ fs.reads[n].lba >= get_root_offset
            /\ fs.reads[n].lba + fs.reads[n].count <= get_root_offset + get_root_size
            /\ fs.reads[n].lba < get_cluster_region_offset

(* ------------------------------------------- the two sector caches: SpecCache *)
MaxFatSector == 2
MaxRun == 3

\* Byte indexes of the FAT: the first two and the last of each sector.
FatIndexes == {SECTOR_BYTES * s + o : s \in 0..MaxFatSector, o \in {0, 1, 511}}

\* A FAT whose bytes of interest all differ.
CacheFatBytes ==
    [i \in FatIndexes |-> 1 + 16 * (i \div SECTOR_BYTES) + ((i % SECTOR_BYTES) % 16)]

InitCache ==
    /\ boot_sector = BootSectorOf(1, ENTRIES_PER_SECTOR * MaxRootSectors)
    /\ drive = DriveGeometry
    /\ overflow_checks = FALSE
    /\ \E t \in RootPositions \cup {NoPos}, a \in {NoPos, 17} :
          disk = [NoDisk EXCEPT
                    !.fat_bytes = CacheFatBytes,
                    !.sectors = RootImage(BootSectorOf(1, 16), MaxRootSectors + 1,
                                          EntriesOfInterest({a}, t))]
    /\ fs = FS_new
    /\ file = NoFile
    /\ op = NoOp
    /\ hist = [before |-> FS_new, run_sector |-> 0, run_len |-> 0,
               run_reads |-> 0, run_resident |-> FALSE]

\* One access to the FAT cache. hist follows the run of consecutive accesses
\* to one sector: its length, the reads it caused, and whether the sector was
\* resident when the run began.
FatBufferRead(idx) ==
    /\ fs.halted = "no"
    /\ (idx \div SECTOR_BYTES + 1 = hist.run_sector) => hist.run_len < MaxRun
    /\ \E r \in {fat_buffer_read([fs EXCEPT !.reads = <<>>], idx)} :
          /\ fs' = r.fs
          /\ op' = [name |-> "fat_buffer_read", idx |-> idx, val |-> r.val]
          /\ hist' =
                IF idx \div SECTOR_BYTES + 1 = hist.run_sector
                THEN [hist EXCEPT !.before = fs, !.run_len = @ + 1,
                                  !.run_reads = @ + Len(r.fs.reads)]
                ELSE [before |-> fs, run_sector |-> idx \div SECTOR_BYTES + 1,
                      run_len |-> 1, run_reads |-> Len(r.fs.reads),
                      run_resident |-> fs.fat_sector = idx \div SECTOR_BYTES + 1]
    /\ UNCHANGED <<boot_sector, drive, overflow_checks, disk, file>>

\* A root lookup: its accesses to the directory cache are the indexes it inspects.
RootLookup(name) ==
    /\ fs.halted = "no"
    /\ \E r \in {get_entry_from_root([fs EXCEPT !.reads = <<>>], name)} :
          /\ fs' = r.fs
          /\ op' = [name |-> "get_entry_from_root", arg |-> name,
                    result |-> r.result, inspected |-> r.inspected]
    /\ hist' = [hist EXCEPT !.before = fs, !.run_sector = 0, !.run_len = 0]
    /\ UNCHANGED <<boot_sector, drive, overflow_checks, disk, file>>

NextCache ==
    \/ \E idx \in FatIndexes : FatBufferRead(idx)
    \/ \E name \in {NameA, NameC} : RootLookup(name)

SpecCache == InitCache /\ [][NextCache]_vars

\* The reads a single-sector cache owes for a sequence of accesses: one for
\* every access to a sector that is not the resident one (1-based, 0 = none).
RECURSIVE OwedReads(_, _, _, _)
OwedReads(resident, idxs, per_sector, region_offset) ==
    IF idxs = <<>> THEN <<>>
    ELSE LET s == Head(idxs) \div per_sector
         IN  (IF s + 1 = resident THEN <<>>
              ELSE <<[lba |-> region_offset + s, count |-> 1]>>)
             \o OwedReads(s + 1, Tail(idxs), per_sector, region_offset)

\* C6: for the FAT cache (512 indexes per sector) and the directory cache (16
\* entries per sector), consecutive accesses within one sector cause exactly
\* one disk read, none when the sector is already resident, and the first
\* access to another sector causes exactly one read of the single sector
\* region_offset + index / entries_per_sector.
C6_CacheHitMiss ==
    /\ op.name = "fat_buffer_read" =>
          /\ hist.run_reads = IF hist.run_resident THEN 0 ELSE 1
          /\ LbaAndCount(fs.reads) =
                OwedReads(hist.before.fat_sector, <<op.idx>>, 512, get_fat_offset)
          /\ (hist.run_len = 1 /\ ~hist.run_resident) => Len(fs.reads) = 1
          /\ hist.run_len > 1 => fs.reads = <<>>
    /\ op.name = "get_entry_from_root" =>
          LbaAndCount(fs.reads) =
             OwedReads(hist.before.root_sector, op.inspected, 16, get_root_offset)

\* Three consecutive accesses to the second FAT sector, which was not resident,
\* after a root lookup that ran through two sectors: one read.
C6_Witness ==
    /\ op.name = "fat_buffer_read"
    /\ hist.run_len = 3 /\ hist.run_reads = 1 /\ hist.run_sector = 2
    /\ fs.fat_sector = 2 /\ fs.root_sector = 2

\* C25: after any sequence of accesses to the two caches, a cache whose
\* recorded sector number s is >= 1 holds disk sector region_offset + s - 1,
\* and one whose number is 0 holds nothing and misses; every access returns
\* the byte (FAT) or the entry (root directory) that the disk holds at the
\* region-relative index.
C25_CacheCoherence ==
    fs.halted = "no" =>
        /\ fs.fat_buffer = IF fs.fat_sector >= 1
                           THEN get_fat_offset + fs.fat_sector - 1 ELSE ZEROED
        /\ fs.root_buffer = IF fs.root_sector >= 1
                            THEN get_root_offset + fs.root_sector - 1 ELSE ZEROED
        /\ op.name = "fat_buffer_read" =>
              /\ op.val = SectorByte(get_fat_offset + op.idx \div SECTOR_BYTES,
                                     op.idx % SECTOR_BYTES)
              /\ hist.before.fat_sector = 0 => Len(fs.reads) = 1
        /\ op.name = "get_entry_from_root" =>
              /\ hist.before.root_sector = 0 => fs.reads # <<>>
              /\ op.result.found =>
                    op.result.entry = RootAt(op.inspected[Len(op.inspected)])
              /\ \A n \in 1..(Len(op.inspected) - 1) :
                    /\ RootAt(op.inspected[n]).name # op.arg
                    /\ RootAt(op.inspected[n]).name[1] # 0

\* The last byte of the second FAT sector is returned after the cache held the
\* first one, with the second root sector resident.
C25_Witness ==
    /\ op.name = "fat_buffer_read" /\ op.idx = 1023 /\ op.val = 32
    /\ hist.before.fat_sector = 1 /\ hist.before.fat_buffer = get_fat_offset
    /\ fs.fat_sector = 2 /\ fs.root_sector = 2

(* ------------------------------------------------------- sub-directories *)
\* File::BUFFER_SIZE, in sectors
BUFFER_SIZE == 1

ENTRIES_PER_FILE_BUFFER == (BUFFER_SIZE * SECTOR_BYTES) \div 32 - 1

\* Sectors of the largest directory. A scan that returns does so within
\* 15 * sectors + 1 inspections, after which the windows repeat: a scan that
\* has inspected MaxDirScan entries never returns.
MaxDirSectors == 2
MaxDirScan == ENTRIES_PER_SECTOR * (MaxDirSectors + 1)

\* dir_buffer.get(slot): the file buffer read as directory entries.
dir_buffer_get(fl, slot) ==
    SectorEntry(fl.buffer[slot \div ENTRIES_PER_SECTOR + 1], slot % ENTRIES_PER_SECTOR)

\* An iteration of the loop of FS::get_entry_from_directory once the window
\* of the entry is in the file buffer (r is what file_read returned, or the
\* state as it was). s holds the state of the loop.
dir_scan_entry(s, r, miss) ==
    LET slot == s.entry_index % ENTRIES_PER_FILE_BUFFER
        entry == dir_buffer_get(r.file, slot)
        seen1 == Append(s.inspected,
                        [lba |-> r.file.buffer[slot \div ENTRIES_PER_SECTOR + 1],
                         slot |-> slot % ENTRIES_PER_SECTOR])
    IN  IF r.fs.halted # "no"
        THEN [s EXCEPT !.fs = r.fs, !.file = r.file, !.done = TRUE]
        ELSE IF no_more_entries(entry)
        THEN [s EXCEPT !.fs = r.fs, !.file = r.file, !.inspected = seen1,
                       !.done = TRUE, !.returned = TRUE]
        ELSE IF s.entry_name = entry.name
        THEN [s EXCEPT !.fs = r.fs, !.file = r.file, !.inspected = seen1,
                       !.done = TRUE, !.returned = TRUE, !.result = Found(entry)]
        ELSE [s EXCEPT !.fs = r.fs, !.file = r.file, !.inspected = seen1,
                       !.entry_index = @ + 1,
                       !.min_entry = IF miss THEN @ + ENTRIES_PER_FILE_BUFFER ELSE @,
                       !.max_entry = IF miss THEN @ + ENTRIES_PER_FILE_BUFFER ELSE @]

\* One iteration of the loop; nothing happens once the loop is left.
dir_scan_step(s) ==
    LET miss == s.entry_index < s.min_entry \/ s.max_entry < s.entry_index
    IN  IF s.done THEN s
        ELSE dir_scan_entry(s,
                 IF miss THEN file_read(s.fs, s.file)
                 ELSE [fs |-> s.fs, file |-> s.file],
                 miss)

\* n iterations of the loop: the first half, then from the state it leaves
\* (bound as the element of a singleton set) the second half.
RECURSIVE dir_scan_run(_, _)
dir_scan_run(s, n) ==
    IF n = 0 THEN s
    ELSE IF n = 1 THEN dir_scan_step(s)
    ELSE CHOOSE out \in {dir_scan_run(half, n - n \div 2) :
                            half \in {dir_scan_run(s, n \div 2)}} : TRUE

\* What the loop returns; a loop that is not left does not return.
dir_scan_result(s) ==
    [fs |-> s.fs, file |-> s.file, result |-> s.result,
     inspected |-> s.inspected, returned |-> s.returned]

\* The loop of FS::get_entry_from_directory. seen lists, for every entry
\* inspected, the disk sector and the slot it was taken from.
\* [fs, file, result, inspected, returned]
dir_scan(f, fl, entry_name, entry_index, min_entry, max_entry, seen) ==
    dir_scan_result(
        dir_scan_run([fs |-> f, file |-> fl, entry_name |-> entry_name,
                      entry_index |-> entry_index, min_entry |-> min_entry,
                      max_entry |-> max_entry, inspected |-> seen,
                      result |-> NotFound, returned |-> FALSE, done |-> FALSE],
                     MaxDirScan - Len(seen)))

\* The scan starts once the first window is read (r).
dir_scan_start(r, entry_name) ==
    IF r.fs.halted # "no"
    THEN [fs |-> r.fs, file |-> r.file, result |-> NotFound,
          inspected |-> <<>>, returned |-> FALSE]
    ELSE dir_scan(r.fs, r.file, entry_name, 0, 0, ENTRIES_PER_FILE_BUFFER, <<>>)

\* FS::get_entry_from_directory
get_entry_from_directory(f, fl, entry_name) ==
    dir_scan_start(file_read(f, IF fl.current_cluster_read_sectors # 0
                                THEN File_reset(fl) ELSE fl),
                   entry_name)

(* --------------------------------------- scanning a sub-directory: SpecDir *)
\* Positions of a directory sector: its first two entries and its last two.
DirSlotOffsets == {0, 1, 14, 15}

\* The clusters directories are stored in.
DirClusters == {2, 3}

\* First sector of a cluster on a disk with boot sector bs.
ClusterOffsetOf(bs, cluster) ==
    RootOffsetOf(bs) + bs.root_entries \div 16 + bs.sectors_per_cluster * (cluster - 2)

\* The sectors of a chain of clusters, in order.
RECURSIVE ChainLbas(_, _)
ChainLbas(bs, ch) ==
    IF ch = <<>> THEN <<>>
    ELSE [k \in 1..bs.sectors_per_cluster |-> ClusterOffsetOf(bs, Head(ch)) + k - 1]
         \o ChainLbas(bs, Tail(ch))

\* The image of a directory stored in the clusters of ch.
DirImage(bs, ch, entries) ==
    LET lbas == ChainLbas(bs, ch)
    IN  [lba \in Range(lbas) |->
            SectorImage(ENTRIES_PER_SECTOR * ((CHOOSE k \in DOMAIN lbas : lbas[k] = lba) - 1),
                        entries)]

DirEntryOf(cluster) ==
    [name |-> [k \in 1..ENTRY_NAME_LENGTH |-> IF k = 1 THEN 68 ELSE 32],
     attributes |-> 16, lower_first_cluster |-> cluster]

InitDir ==
    /\ drive = DriveGeometry
    /\ overflow_checks = FALSE
    /\ \E spc \in 1..MaxClusterSize :
       \E ch \in {c \in Chains(DirClusters, Cardinality(DirClusters)) :
                    Distinct(c) /\ Len(c) * spc <= MaxDirSectors} :
       \E a, t \in {ENTRIES_PER_SECTOR * s + o :
                       s \in 0..(Len(ch) * spc - 1), o \in DirSlotOffsets} \cup {NoPos} :
          /\ boot_sector = BootSectorOf(spc, ENTRIES_PER_SECTOR)
          /\ disk = [NoDisk EXCEPT
                       !.fat_bytes = FatBytesOf(ChainTable(ch, 4095)),
                       !.sectors = DirImage(BootSectorOf(spc, ENTRIES_PER_SECTOR), ch,
                                            EntriesOfInterest({a}, t))]
          /\ file = File_new(DirEntryOf(ch[1]), BUFFER_SIZE)
          /\ hist = [chain |-> ch, fresh |-> TRUE]
    /\ fs = FS_new
    /\ op = NoOp

\* A lookup in the directory with a File made from its entry, as path
\* resolution does (fresh), or with the File an earlier lookup left.
GetEntryFromDirectory(name, fresh) ==
    /\ fs.halted = "no"
    /\ \E r \in {get_entry_from_directory(
                    [fs EXCEPT !.reads = <<>>],
                    IF fresh THEN File_new(file.metadata, BUFFER_SIZE) ELSE file,
                    name)} :
          /\ fs' = r.fs
          /\ file' = r.file
          /\ op' = [name |-> "get_entry_from_directory", arg |-> name,
                    result |-> r.result, inspected |-> r.inspected,
                    returned |-> r.returned]
    /\ hist' = [hist EXCEPT !.fresh = fresh]
    /\ UNCHANGED <<boot_sector, drive, overflow_checks, disk>>

NextDir ==
    \E name \in {NameA, NameC}, fresh \in BOOLEAN : GetEntryFromDirectory(name, fresh)

SpecDir == InitDir /\ [][NextDir]_vars

\* Entry i of the directory in on-disk order, over its cluster chain.
DirAt(i) ==
    SectorEntry(ChainLbas(boot_sector, hist.chain)[i \div ENTRIES_PER_SECTOR + 1],
                i % ENTRIES_PER_SECTOR)

DirSize == ENTRIES_PER_SECTOR * Len(hist.chain) * boot_sector.sectors_per_cluster

DirMatches(name) ==
    {i \in 0..(DirSize - 1) :
        /\ DirAt(i).name = name
        /\ \A j \in 0..i : DirAt(j).name[1] # 0}

\* C3: get_entry_from_directory returns the first entry, in on-disk order over
\* the directory's cluster chain, whose name equals the requested name and
\* that precedes the first terminator, at whatever slot of whatever window it
\* lies; it returns not-found only when there is no such entry.
C3_DirectoryLookupResult ==
    (op.name = "get_entry_from_directory" /\ hist.fresh) =>
        /\ op.returned
        /\ IF DirMatches(op.arg) = {}
           THEN ~op.result.found
           ELSE /\ op.result.found
                /\ \E i \in DirMatches(op.arg) :
                      /\ \A j \in DirMatches(op.arg) : i <= j
                      /\ op.result.entry = DirAt(i)

\* C22: whatever cursor the File has when get_entry_from_directory is called
\* (fresh, in the middle of a cluster, at a cluster boundary, finished), the
\* scan begins at the first sector of the directory's first cluster and the
\* result is the result of the lookup made with a fresh File.
C22_LookupFromStart ==
    op.name = "get_entry_from_directory" =>
        /\ SectorsOf(fs.reads, "file") # <<>>
        /\ SectorsOf(fs.reads, "file")[1] = ClusterOffsetOf(boot_sector, hist.chain[1])
        /\ \A fresh \in {get_entry_from_directory(
                              FS_new, File_new(file.metadata, BUFFER_SIZE), op.arg)} :
              /\ op.returned = fresh.returned
              /\ op.result = fresh.result

\* C23: get_entry_from_directory inspects the 32-byte slots of the directory
\* in on-disk order, each once (the n-th inspection is that of the n-th slot,
\* so a window covers the 16 slots of a buffered sector), and inspects no slot
\* behind the first slot whose name starts with 0x00.
C23_ScanOrderAndTerminator ==
    (op.name = "get_entry_from_directory" /\ hist.fresh) =>
        /\ Len(op.inspected) <= DirSize
        /\ \A n \in DOMAIN op.inspected :
              /\ n <= DirSize =>
                    /\ op.inspected[n].lba =
                          ChainLbas(boot_sector, hist.chain)[(n - 1) \div ENTRIES_PER_SECTOR + 1]
                    /\ op.inspected[n].slot = (n - 1) % ENTRIES_PER_SECTOR
              /\ \A j \in 0..(n - 2) : j < DirSize => DirAt(j).name[1] # 0

\* C24: for every directory with a well-formed chain and every name,
\* get_entry_from_directory returns, after at most one read of each sector of
\* the directory: it never goes back to the start of the directory.
C24_LookupTerminates ==
    (op.name = "get_entry_from_directory" /\ hist.fresh) =>
        /\ op.returned
        /\ Len(SectorsOf(fs.reads, "file")) <= Len(ChainLbas(boot_sector, hist.chain))
        /\ Distinct(SectorsOf(fs.reads, "file"))

(* ------------------------------------------------------ path resolution *)
PATH_SEPARATOR == 47

\* slice::split: the segments between the separators, empty ones included.
RECURSIVE split(_, _)
split(s, sep) ==
    IF \A k \in DOMAIN s : s[k] # sep THEN <<s>>
    ELSE LET k == CHOOSE i \in DOMAIN s :
                      s[i] = sep /\ \A j \in 1..(i - 1) : s[j] # sep
         IN  <<SubSeq(s, 1, k - 1)>> \o split(SubSeq(s, k + 1, Len(s)), sep)

\* "the previous must be a directory. If not, return None."
not_a_directory_Never(entry) == FALSE

not_a_directory(entry) == ~is_directory(entry)

\* The loop of FS::get_entry_from_absolute_path over the segments left.
\* opened lists the first clusters of the entries opened as directories.
\* Each intermediate result (a let of the code) is bound once, as the element
\* of a singleton set. [fs, result, returned, opened]
RECURSIVE path_loop(_, _, _, _)

\* The rest of an iteration, once the entry is looked up in the directory (r).
path_step(r, segments, opened1) ==
    IF ~r.returned
    THEN [fs |-> r.fs, result |-> NotFound, returned |-> FALSE, opened |-> opened1]
    ELSE IF ~r.result.found
    THEN [fs |-> r.fs, result |-> NotFound, returned |-> TRUE, opened |-> opened1]
    ELSE path_loop(r.fs, r.result.entry, Tail(segments), opened1)

path_loop(f, entry, segments, opened) ==
    IF segments = <<>>
    THEN [fs |-> f, result |-> Found(entry), returned |-> TRUE, opened |-> opened]
    ELSE IF not_a_directory(entry)
    THEN [fs |-> f, result |-> NotFound, returned |-> TRUE, opened |-> opened]
    ELSE IF Head(segments) = <<>>
    THEN path_loop(f, entry, Tail(segments), opened)
    ELSE CHOOSE out \in
            {IF entry_name.panic
             THEN [fs |-> [f EXCEPT !.halted = "index out of bounds"],
                   result |-> NotFound, returned |-> FALSE, opened |-> opened]
             ELSE CHOOSE o \in
                     {path_step(r, segments, Append(opened, entry.lower_first_cluster)) :
                        r \in {get_entry_from_directory(
                                  f, File_new(entry, BUFFER_SIZE), entry_name.value)}} :
                     TRUE :
                entry_name \in {parse_entry_name(Head(segments))}} : TRUE

\* The rest of FS::get_entry_from_absolute_path, once the first segment is
\* looked up in the root (r).
root_step(r, segments) ==
    IF r.fs.halted # "no"
    THEN [fs |-> r.fs, result |-> NotFound, returned |-> FALSE, opened |-> <<>>]
    ELSE IF ~r.result.found
    THEN [fs |-> r.fs, result |-> NotFound, returned |-> TRUE, opened |-> <<>>]
    ELSE path_loop(r.fs, r.result.entry, Tail(segments), <<>>)

\* FS::get_entry_from_absolute_path
get_entry_from_absolute_path(f, path) ==
    IF path = <<>>
    THEN [fs |-> [f EXCEPT !.halted = "index out of bounds"],
          result |-> NotFound, returned |-> FALSE, opened |-> <<>>]
    ELSE IF path[1] # PATH_SEPARATOR
    THEN [fs |-> [f EXCEPT !.halted = "Path must be absolute"],
          result |-> NotFound, returned |-> FALSE, opened |-> <<>>]
    ELSE CHOOSE out \in
            {IF root_entry_name.panic
             THEN [fs |-> [f EXCEPT !.halted = "index out of bounds"],
                   result |-> NotFound, returned |-> FALSE, opened |-> <<>>]
             ELSE CHOOSE o \in
                     {root_step(r, segments) :
                        r \in {get_entry_from_root(f, root_entry_name.value)}} : TRUE :
                segments \in {split(Tail(path), PATH_SEPARATOR)},
                root_entry_name \in {parse_entry_name(Head(split(Tail(path),
                                                                 PATH_SEPARATOR)))}} :
            TRUE

(* ------------------------------------------- resolving paths: SpecPath *)
MaxSegments == 3

\* The names of the tree: D (directories), F (files), and the empty segment
\* of a repeated separator.
SegmentNames == {<<68>>, <<70>>, <<>>}

RECURSIVE SegmentLists(_)
SegmentLists(n) ==
    IF n = 0 THEN {<<>>}
    ELSE {<<x>> \o l : x \in SegmentNames, l \in SegmentLists(n - 1)}

RECURSIVE Joined(_)
Joined(segments) ==
    IF segments = <<>> THEN <<>>
    ELSE <<PATH_SEPARATOR>> \o Head(segments) \o Joined(Tail(segments))

\* Absolute paths of 1..MaxSegments segments, an empty and a relative path.
PathInputs ==
    {Joined(l) : l \in UNION {SegmentLists(n) : n \in 1..MaxSegments}}
    \cup {<<>>, <<68>>}

Named(letter, attributes, cluster) ==
    [name |-> [k \in 1..ENTRY_NAME_LENGTH |-> IF k = 1 THEN letter ELSE 32],
     attributes |-> attributes, lower_first_cluster |-> cluster]

\* Attribute bytes of the entry F: none, archive + read-only, and, for
\* contrast, directory.
AttributesOfF == {0, 33, 16}

\* The tree:  /D (directory, cluster 2)    /D/F (file, 4)   /D/D (directory, 5)
\*            /D/D/F (file, 6)             /F (cluster 3; its data reads as a
\*            directory that holds F and D)
TreeImage(bs, attributes) ==
    LET dir(first, entries) ==
            [len |-> 0, first |-> first, entries |-> entries]
    IN  (RootOffsetOf(bs) :>
            dir(0, (0 :> Named(68, 16, 2)) @@ (1 :> Named(70, attributes, 3))))
        @@ (ClusterOffsetOf(bs, 2) :>
            dir(0, (0 :> Named(70, 32, 4)) @@ (1 :> Named(68, 16, 5))))
        @@ (ClusterOffsetOf(bs, 3) :>
            dir(0, (0 :> Named(70, 32, 7)) @@ (1 :> Named(68, 16, 5))))
        @@ (ClusterOffsetOf(bs, 5) :>
            dir(0, (0 :> Named(70, 32, 6))))

InitPath ==
    /\ boot_sector = BootSectorOf(1, ENTRIES_PER_SECTOR)
    /\ drive = DriveGeometry
    /\ overflow_checks = FALSE
    /\ \E attributes \in AttributesOfF :
          disk = [NoDisk EXCEPT
                    !.fat_bytes = FatBytesOf([c \in 2..7 |-> 4095]),
                    !.sectors = TreeImage(BootSectorOf(1, ENTRIES_PER_SECTOR),
                                          attributes)]
    /\ fs = FS_new
    /\ file = NoFile
    /\ op = NoOp
    /\ hist = [before |-> FS_new]

GetEntryFromAbsolutePath(path) ==
    /\ fs.halted = "no"
    /\ \E r \in {get_entry_from_absolute_path([fs EXCEPT !.reads = <<>>], path)} :
          /\ fs' = r.fs
          /\ op' = [name |-> "get_entry_from_absolute_path", path |-> path,
                    result |-> r.result, returned |-> r.returned,
                    opened |-> r.opened]
    /\ hist' = [before |-> [fs EXCEPT !.reads = <<>>]]
    /\ UNCHANGED <<boot_sector, drive, overflow_checks, disk, file>>

NextPath == \E path \in PathInputs : GetEntryFromAbsolutePath(path)

SpecPath == InitPath /\ [][NextPath]_vars

\* The first entry named name before the terminator of the one-sector
\* directory at lba, as the disk holds it.
DiskLookup(lba, name) ==
    LET m == {i \in 0..(ENTRIES_PER_SECTOR - 1) :
                 /\ SectorEntry(lba, i).name = name
                 /\ \A j \in 0..i : SectorEntry(lba, j).name[1] # 0}
    IN  IF m = {} THEN NotFound
        ELSE Found(SectorEntry(lba, CHOOSE i \in m : \A j \in m : i <= j))

\* The entry without the directory bit that a non-final segment of the path
\* resolves to, walking the disk from the directory at lba; not-found if none.
RECURSIVE FileInTheWay(_, _)
FileInTheWay(lba, segments) ==
    IF Len(segments) < 2 THEN NotFound
    ELSE IF Head(segments) = <<>> THEN FileInTheWay(lba, Tail(segments))
    ELSE LET r == DiskLookup(lba, Reference83(Head(segments)))
         IN  IF ~r.found THEN NotFound
             ELSE IF (r.entry.attributes \div 16) % 2 = 0 THEN r
             ELSE FileInTheWay(ClusterOffsetOf(boot_sector, r.entry.lower_first_cluster),
                               Tail(segments))

SegmentsOf(path) == split(Tail(path), PATH_SEPARATOR)

\* C8: when a non-final segment of a path of two or more segments resolves to
\* an entry that exists but lacks the directory bit, the resolution returns
\* not-found: it does not halt, and it does not open that entry or read its
\* clusters as a directory.
C8_FileUsedAsDirectory ==
    (/\ op.name = "get_entry_from_absolute_path"
     /\ op.path # <<>> /\ Head(op.path) = PATH_SEPARATOR
     /\ FileInTheWay(get_root_offset, SegmentsOf(op.path)).found) =>
        LET blocking == FileInTheWay(get_root_offset, SegmentsOf(op.path)).entry
        IN  /\ op.returned /\ fs.halted = "no"
            /\ ~op.result.found
            /\ \A n \in DOMAIN op.opened : op.opened[n] # blocking.lower_first_cluster
            /\ \A n \in DOMAIN fs.reads :
                  fs.reads[n].lba # ClusterOffsetOf(boot_sector,
                                                    blocking.lower_first_cluster)

\* "/F/D": F is a file whose data would read as a directory that holds D.
C8_Witness ==
    /\ op.name = "get_entry_from_absolute_path"
    /\ op.path = <<47, 70, 47, 68>>
    /\ FileInTheWay(get_root_offset, SegmentsOf(op.path)).found
    /\ SectorEntry(ClusterOffsetOf(boot_sector, 3), 1).name = Reference83(<<68>>)
    /\ ~op.result.found /\ op.returned
    /\ Len(fs.reads) = 1

\* A path without its repeated separators.
RECURSIVE Squeezed(_)
Squeezed(path) ==
    IF Len(path) < 2 THEN path
    ELSE IF path[1] = PATH_SEPARATOR /\ path[2] = PATH_SEPARATOR
    THEN Squeezed(Tail(path))
    ELSE <<Head(path)>> \o Squeezed(Tail(path))

\* C9: repeated separators after the leading one do not change the result:
\* a path and the path without them resolve to the same entry or are both
\* not-found.
C9_EmptySegmentsIgnored ==
    (op.name = "get_entry_from_absolute_path" /\ Squeezed(op.path) # op.path) =>
        /\ op.returned
        /\ op.result =
              get_entry_from_absolute_path(hist.before, Squeezed(op.path)).result

(* ------------------------------------------------- LBA to CHS: SpecChs *)
\* Sector addresses (u16): around the track and cylinder borders of a floppy,
\* its last sector, and the largest values.
LbaInputs == {0, 1, 17, 18, 35, 36, 254, 255, 256, 2879, 32768, 65024, 65535}

\* Sectors per track and heads (u8, non-zero).
SectorsPerTrack == {1, 9, 18, 63, 255}
HeadsPerCylinder == {1, 2, 16, 255}

InitChs ==
    /\ boot_sector = BootSectorOf(1, 224)
    /\ drive = DriveGeometry
    /\ overflow_checks = FALSE
    /\ disk = NoDisk
    /\ fs = FS_new
    /\ file = NoFile
    /\ op = NoOp
    /\ hist \in [lba : LbaInputs, spt : SectorsPerTrack, heads : HeadsPerCylinder]

LbaToChs ==
    /\ op.name = "none"
    /\ op' = [name |-> "lba_to_chs",
              result |-> lba_to_chs(hist.lba, hist.spt, hist.heads)]
    /\ UNCHANGED <<boot_sector, drive, overflow_checks, disk, fs, file, hist>>

NextChs == LbaToChs

SpecChs == InitChs /\ [][NextChs]_vars

\* C12: lba_to_chs(lba, spt, heads) is cylinder (lba / spt) / heads, head
\* (lba / spt) % heads, sector (lba % spt) + 1, so that 1 <= sector <= spt,
\* head < heads, (cylinder * heads + head) * spt + (sector - 1) = lba, and
\* lba_to_chs(0, 18, 2) = (0, 0, 1).
C12_ChsTranslation ==
    op.name = "lba_to_chs" =>
        LET c == op.result.cylinder
            h == op.result.head
            sec == op.result.sector
        IN  /\ c = (hist.lba \div hist.spt) \div hist.heads
            /\ h = (hist.lba \div hist.spt) % hist.heads
            /\ sec = (hist.lba % hist.spt) + 1
            /\ 1 <= sec /\ sec <= hist.spt
            /\ h < hist.heads
            /\ (c * hist.heads + h) * hist.spt + (sec - 1) = hist.lba
            /\ (hist.lba = 0 /\ hist.spt = 18 /\ hist.heads = 2) =>
                  (c = 0 /\ h = 0 /\ sec = 1)

\* The last sector of a 1.44 MB floppy: cylinder 79, head 1, sector 18.
C12_Witness ==
    /\ op.name = "lba_to_chs"
    /\ hist.lba = 2879 /\ hist.spt = 18 /\ hist.heads = 2
    /\ op.result = [cylinder |-> 79, head |-> 1, sector |-> 18]

(* ------------------------------------------------ construction and files *)
\* The log entry of the call of _c_disk_get_params.
ParamsCall ==
    [lba |-> ZEROED, count |-> 0, reason |-> "_c_disk_get_params",
     chs |-> [cylinder |-> 0, head |-> 0, sector |-> 0],
     outcome |-> drive.outcome]

\* FS::new that reads the boot sector whatever _c_disk_get_params reports.
new_NoParamsCheck(f0) ==
    read_disk([f0 EXCEPT !.reads = Append(@, ParamsCall)], 0, 1, "Boot Sector")

\* FS::new, run on the state f0 of the machine before construction: query the
\* drive parameters, then read the boot sector; the caches start empty.
new(f0) ==
    IF ~drive.outcome
    THEN [f0 EXCEPT !.reads = Append(@, ParamsCall),
                    !.halted = "Could not read disk parameters!"]
    ELSE read_disk([f0 EXCEPT !.reads = Append(@, ParamsCall),
                              !.fat_sector = 0, !.fat_buffer = ZEROED,
                              !.root_sector = 0, !.root_buffer = ZEROED],
                   0, 1, "Boot Sector")

\* FS::get_file_from_absolute_path: [fs, found, file, returned]
get_file_from_absolute_path(f, path) ==
    CHOOSE out \in
        {[fs |-> r.fs, found |-> r.result.found, returned |-> r.returned,
          file |-> IF r.result.found THEN File_new(r.result.entry, BUFFER_SIZE)
                   ELSE NoFile] :
            r \in {get_entry_from_absolute_path(f, path)}} : TRUE

(* ------------------------------------------- failing disk reads: SpecIo *)
\* The largest number of disk reads that succeed before one fails.
MaxIoBudget == 6

\* "/F" (a file of two clusters), "/D/D/F" and "/D/G" (absent).
IoPaths == {<<47, 70>>, <<47, 68, 47, 68, 47, 70>>, <<47, 68, 47, 71>>}

\* Clusters whose FAT entries lie in the first and across the first two sectors.
IoClusters == {3, 341}

InitIo ==
    /\ boot_sector = BootSectorOf(1, ENTRIES_PER_SECTOR)
    /\ drive \in {DriveGeometry, [DriveGeometry EXCEPT !.outcome = FALSE]}
    /\ overflow_checks = FALSE
    /\ disk = [NoDisk EXCEPT
                 !.fat_bytes = FatBytesOf([c \in 2..7 |-> IF c = 3 THEN 7 ELSE 4095]),
                 !.sectors = TreeImage(BootSectorOf(1, ENTRIES_PER_SECTOR), 33)]
    /\ \E n \in 0..MaxIoBudget \cup {NEVER} : fs = [FS_new EXCEPT !.io_budget = n]
    /\ file = NoFile
    /\ op = NoOp
    /\ hist = [phase |-> "boot"]

\* FS::new
Boot ==
    /\ hist.phase = "boot"
    /\ fs' = new(fs)
    /\ op' = [name |-> "new", returned |-> new(fs).halted = "no"]
    /\ hist' = [phase |-> "ready"]
    /\ UNCHANGED <<boot_sector, drive, overflow_checks, disk, file>>

\* A fill of the FAT cache: FS::fat_entry_read
CacheFill(cluster) ==
    /\ hist.phase = "ready" /\ fs.halted = "no"
    /\ \E r \in {fat_entry_read([fs EXCEPT !.reads = <<>>], cluster)} :
          /\ fs' = r.fs
          /\ op' = [name |-> "fat_entry_read", returned |-> r.fs.halted = "no"]
    /\ UNCHANGED <<boot_sector, drive, overflow_checks, disk, file, hist>>

\* FS::get_file_from_absolute_path
Open(path) ==
    /\ hist.phase = "ready" /\ fs.halted = "no"
    /\ \E r \in {get_file_from_absolute_path([fs EXCEPT !.reads = <<>>], path)} :
          /\ fs' = r.fs
          /\ file' = IF r.found THEN r.file ELSE file
          /\ op' = [name |-> "get_file_from_absolute_path", path |-> path,
                    found |-> r.found,
                    returned |-> r.returned /\ r.fs.halted = "no"]
    /\ UNCHANGED <<boot_sector, drive, overflow_checks, disk, hist>>

\* FS::file_read on the file opened last
Read ==
    /\ hist.phase = "ready" /\ fs.halted = "no" /\ file # NoFile
    /\ \E r \in {file_read([fs EXCEPT !.reads = <<>>], file)} :
          /\ fs' = r.fs
          /\ file' = r.file
          /\ op' = [name |-> "file_read", returned |-> r.fs.halted = "no"]
    /\ UNCHANGED <<boot_sector, drive, overflow_checks, disk, hist>>

NextIo ==
    \/ Boot
    \/ \E cluster \in IoClusters : CacheFill(cluster)
    \/ \E path \in IoPaths : Open(path)
    \/ Read

SpecIo == InitIo /\ [][NextIo]_vars

\* C13: when a disk read fails during FS::new, a cache fill, a lookup or
\* file_read, the operation halts and returns nothing, and the failed call is
\* the last call made: no retry, no further read or parameter query.
C13_FatalIoFailure ==
    /\ \A n \in DOMAIN fs.reads :
          ~fs.reads[n].outcome =>
              /\ n = Len(fs.reads)
              /\ fs.halted # "no"
              /\ ~op.returned
    /\ fs.halted = "Could not read from disk!" =>
          /\ fs.reads # <<>>
          /\ ~fs.reads[Len(fs.reads)].outcome
          /\ ~op.returned

\* The lookup of "/D/D/F" fails at its fourth read, that of the directory /D/D.
C13_Witness ==
    /\ op.name = "get_file_from_absolute_path"
    /\ fs.halted = "Could not read from disk!"
    /\ Len(fs.reads) = 4
    /\ fs.reads[4].reason = "file" /\ ~fs.reads[4].outcome
    /\ fs.reads[3].outcome

\* C14: FS::new queries the drive geometry exactly once; if the query fails it
\* halts before any disk read; if it succeeds it then reads exactly one sector
\* at LBA 0 (the boot sector) and nothing else. Both caches start with no
\* resident sector: the first access to each of them reads the disk.
C14_ConstructionSequence ==
    op.name = "new" =>
        /\ fs.reads # <<>>
        /\ fs.reads[1] = ParamsCall
        /\ \A n \in 2..Len(fs.reads) : fs.reads[n].reason # "_c_disk_get_params"
        /\ ~drive.outcome =>
              /\ fs.reads = <<ParamsCall>>
              /\ fs.halted = "Could not read disk parameters!"
              /\ ~op.returned
        /\ drive.outcome =>
              /\ Len(fs.reads) = 2
              /\ fs.reads[2].lba = 0 /\ fs.reads[2].count = 1
              /\ fs.reads[2].reason = "Boot Sector"
              /\ fs.reads[2].chs = [cylinder |-> 0, head |-> 0, sector |-> 1]
        /\ op.returned =>
              /\ fs.halted = "no"
              /\ fs.fat_sector = 0 /\ fs.root_sector = 0
              /\ \A i \in FatIndexes :
                    LET first == fat_buffer_read([fs EXCEPT !.reads = <<>>], i).fs.reads
                    IN  /\ Len(first) = 1
                        /\ first[1].reason = "FAT"
                        /\ first[1].lba = get_fat_offset + i \div SECTOR_BYTES
              /\ LET first == get_entry_from_root([fs EXCEPT !.reads = <<>>],
                                                  NameFiller).fs.reads
                  IN  /\ first # <<>>
                      /\ first[1].reason = "Root Directory"
                      /\ first[1].lba = get_root_offset

\* The construction succeeded after its two calls.
C14_Witness ==
    /\ op.name = "new" /\ op.returned
    /\ Len(fs.reads) = 2 /\ fs.reads[2].outcome
    /\ hist.phase = "ready"

(* ------------------------------------- lookups that find nothing: SpecLookup *)
\* The tree of TreeImage, and the same tree with a directory /D/D that fills
\* its cluster: F and 15 other entries, no terminator.
LookupImages ==
    {TreeImage(BootSectorOf(1, ENTRIES_PER_SECTOR), 32),
     [TreeImage(BootSectorOf(1, ENTRIES_PER_SECTOR), 32) EXCEPT
        ![ClusterOffsetOf(BootSectorOf(1, ENTRIES_PER_SECTOR), 5)] =
            [len |-> ENTRIES_PER_SECTOR, first |-> 0,
             entries |-> (0 :> Named(70, 32, 6))]]}

\* The paths whose segments are all names: no empty segment.
LookupPaths ==
    {path \in PathInputs :
        /\ path # <<>> /\ path[1] = PATH_SEPARATOR /\ path[Len(path)] # PATH_SEPARATOR
        /\ \A k \in 1..(Len(path) - 1) :
              ~(path[k] = PATH_SEPARATOR /\ path[k + 1] = PATH_SEPARATOR)}

InitLookup ==
    /\ boot_sector = BootSectorOf(1, ENTRIES_PER_SECTOR)
    /\ drive = DriveGeometry
    /\ overflow_checks = FALSE
    /\ \E image \in LookupImages :
          disk = [NoDisk EXCEPT
                    !.fat_bytes = FatBytesOf([c \in 2..7 |-> 4095]),
                    !.sectors = image]
    /\ fs = FS_new
    /\ file = NoFile
    /\ op = NoOp
    /\ hist = [missed |-> FALSE, running |-> TRUE]

\* FS::get_entry_from_absolute_path; nothing runs after a call that does not
\* return. hist.missed: an earlier lookup returned the absent result.
LookupEntry(path) ==
    /\ fs.halted = "no" /\ hist.running
    /\ \E r \in {get_entry_from_absolute_path([fs EXCEPT !.reads = <<>>], path)} :
          /\ fs' = r.fs
          /\ op' = [name |-> "get_entry_from_absolute_path", path |-> path,
                    found |-> r.result.found, entry |-> r.result.entry,
                    returned |-> r.returned /\ r.fs.halted = "no",
                    after_miss |-> hist.missed]
          /\ hist' = [missed |-> hist.missed \/ (r.returned /\ ~r.result.found),
                      running |-> r.returned /\ r.fs.halted = "no"]
    /\ UNCHANGED <<boot_sector, drive, overflow_checks, disk, file>>

\* FS::get_file_from_absolute_path
LookupFile(path) ==
    /\ fs.halted = "no" /\ hist.running
    /\ \E r \in {get_file_from_absolute_path([fs EXCEPT !.reads = <<>>], path)} :
          /\ fs' = r.fs
          /\ file' = IF r.found THEN r.file ELSE file
          /\ op' = [name |-> "get_file_from_absolute_path", path |-> path,
                    found |-> r.found, entry |-> r.file.metadata,
                    returned |-> r.returned /\ r.fs.halted = "no",
                    after_miss |-> hist.missed]
          /\ hist' = [missed |-> hist.missed \/ (r.returned /\ ~r.found),
                      running |-> r.returned /\ r.fs.halted = "no"]
    /\ UNCHANGED <<boot_sector, drive, overflow_checks, disk>>

NextLookup ==
    \/ \E path \in LookupPaths : LookupEntry(path)
    \/ \E path \in LookupPaths : LookupFile(path)

SpecLookup == InitLookup /\ [][NextLookup]_vars

\* A segment of the path has no matching entry, walking the disk from the
\* directory at lba: the directories before it exist and are directories.
RECURSIVE NoMatchingEntry(_, _)
NoMatchingEntry(lba, segments) ==
    IF segments = <<>> THEN FALSE
    ELSE IF Head(segments) = <<>> THEN NoMatchingEntry(lba, Tail(segments))
    ELSE LET r == DiskLookup(lba, Reference83(Head(segments)))
         IN  IF ~r.found THEN TRUE
             ELSE IF (r.entry.attributes \div 16) % 2 = 0 THEN FALSE
             ELSE NoMatchingEntry(
                      ClusterOffsetOf(boot_sector, r.entry.lower_first_cluster),
                      Tail(segments))

\* C15: a lookup of a path one of whose segments has no matching entry returns
\* the absent result and does not halt; and a lookup made after such a miss
\* returns the entry that the same lookup returns on a freshly constructed FS.
C15_NotFoundRecoverable ==
    op.name \in {"get_entry_from_absolute_path", "get_file_from_absolute_path"} =>
        /\ NoMatchingEntry(get_root_offset, SegmentsOf(op.path)) =>
              (op.returned /\ ~op.found /\ fs.halted = "no")
        /\ (/\ op.after_miss
            /\ get_entry_from_absolute_path(FS_new, op.path).returned
            /\ get_entry_from_absolute_path(FS_new, op.path).result.found) =>
              /\ op.returned /\ op.found
              /\ op.entry = get_entry_from_absolute_path(FS_new, op.path).result.entry

(* ------------------------------------------- what an operation leaves: SpecFrame *)
\* The names of the root entries of TreeImage ("D", "F") and an absent one.
FrameNames == {Named(68, 0, 0).name, Named(70, 0, 0).name, NameC}

\* What an operation found when it was called.
Before == [fs |-> fs, file |-> file, boot_sector |-> boot_sector, drive |-> drive]

InitFrame ==
    /\ boot_sector = BootSectorOf(1, ENTRIES_PER_SECTOR)
    /\ drive = DriveGeometry
    /\ overflow_checks = FALSE
    /\ disk = [NoDisk EXCEPT
                 !.fat_bytes = FatBytesOf([c \in 2..7 |-> IF c = 3 THEN 7 ELSE 4095]),
                 !.sectors = TreeImage(BootSectorOf(1, ENTRIES_PER_SECTOR), 33)]
    /\ \E n \in {NEVER, MaxIoBudget} : fs = new([FS_new EXCEPT !.io_budget = n])
    /\ file = NoFile
    /\ op = NoOp
    /\ hist = [before |-> Before]

\* FS::fat_entry_read
FrameFat(cluster) ==
    /\ fs.halted = "no"
    /\ \E r \in {fat_entry_read([fs EXCEPT !.reads = <<>>], cluster)} :
          /\ fs' = r.fs
          /\ op' = [name |-> "fat_entry_read", arg |-> cluster]
    /\ hist' = [before |-> Before]
    /\ UNCHANGED <<boot_sector, drive, overflow_checks, disk, file>>

\* FS::get_entry_from_root
FrameRoot(name) ==
    /\ fs.halted = "no"
    /\ \E r \in {get_entry_from_root([fs EXCEPT !.reads = <<>>], name)} :
          /\ fs' = r.fs
          /\ op' = [name |-> "get_entry_from_root", arg |-> name]
    /\ hist' = [before |-> Before]
    /\ UNCHANGED <<boot_sector, drive, overflow_checks, disk, file>>

\* FS::get_file_from_absolute_path
FrameOpen(path) ==
    /\ fs.halted = "no"
    /\ \E r \in {get_file_from_absolute_path([fs EXCEPT !.reads = <<>>], path)} :
          /\ fs' = r.fs
          /\ file' = IF r.found THEN r.file ELSE file
          /\ op' = [name |-> "get_file_from_absolute_path", arg |-> path]
    /\ hist' = [before |-> Before]
    /\ UNCHANGED <<boot_sector, drive, overflow_checks, disk>>

\* FS::file_read on the file opened last
FrameRead ==
    /\ fs.halted = "no" /\ file # NoFile
    /\ \E r \in {file_read([fs EXCEPT !.reads = <<>>], file)} :
          /\ fs' = r.fs
          /\ file' = r.file
          /\ op' = [name |-> "file_read", arg |-> 0]
    /\ hist' = [before |-> Before]
    /\ UNCHANGED <<boot_sector, drive, overflow_checks, disk>>

NextFrame ==
    \/ \E cluster \in IoClusters : FrameFat(cluster)
    \/ \E name \in FrameNames : FrameRoot(name)
    \/ \E path \in IoPaths : FrameOpen(path)
    \/ FrameRead

SpecFrame == InitFrame /\ [][NextFrame]_vars

\* C29: file_read leaves the File's metadata, the directory cache (buffer and
\* resident sector), the drive geometry and the boot sector as they were;
\* get_entry_from_root leaves the FAT cache (and the File) as it was; no
\* operation after FS::new changes the boot sector or the drive geometry.
C29_FrameConditions ==
    /\ op.name = "file_read" =>
          /\ file.metadata = hist.before.file.metadata
          /\ Len(file.buffer) = Len(hist.before.file.buffer)
          /\ fs.root_sector = hist.before.fs.root_sector
          /\ fs.root_buffer = hist.before.fs.root_buffer
    /\ op.name = "get_entry_from_root" =>
          /\ fs.fat_sector = hist.before.fs.fat_sector
          /\ fs.fat_buffer = hist.before.fs.fat_buffer
          /\ file = hist.before.file
    /\ boot_sector = hist.before.boot_sector
    /\ drive = hist.before.drive

\* A file_read that replaced the FAT sector in the cache and moved the cursor
\* to the second cluster of "/F", with the root sector resident.
C29_Witness ==
    /\ op.name = "file_read"
    /\ hist.before.fs.fat_sector = 2 /\ fs.fat_sector = 1
    /\ hist.before.fs.root_sector = 1 /\ fs.root_sector = 1
    /\ hist.before.file.current_cluster = 3 /\ file.current_cluster = 7
    /\ file.buffer # hist.before.file.buffer

====
